---- MODULE Spec2Model ----
(***************************************************************************)
(* Model of the Cadence HiFi quantized layer-norm kernel                   *)
(* (backends/cadence/hifi/operators/op_quantized_layer_norm.cpp) and of    *)
(* the NSNumber conversion helpers                                         *)
(* (extension/apple/ExecuTorch/Internal/ExecuTorchUtils.h).                *)
(*                                                                         *)
(* Integer storage types and the int32_t accumulators keep their widths.   *)
(* 64-bit intermediates are carried as <<hi, lo>> pairs in base 2^16.      *)
(* float values are finite fixed-point numbers with FracBits fractional    *)
(* bits, or an infinity, or NaN; double values carry DExtraBits more       *)
(* fractional bits, so a double -> float conversion rounds.                *)
(***************************************************************************)
EXTENDS Integers, Sequences, FiniteSets, TLC

\* ------------------------------------------------------------------ bounds
\* Longest explicitly enumerated row (trailing dimension).
MaxRowLen == 2
\* Largest number of rows (product of the leading dimensions).
MaxLeading == 2
\* Largest tensor (elements) whose rows and elements are run in every order.
MaxParCells == 4
\* Fractional bits of the modelled float.
FracBits == 4
\* Additional fractional bits of the modelled double.
DExtraBits == 2

\* --------------------------------------------------------- integer widths
\* int32_t, the type of sum, sq_sum and val.
MaxInt32 == 2147483647
MinInt32 == -MaxInt32 - 1

B16 == 2 ^ 16
H15 == 2 ^ 15

\* 64-bit intermediates: the pair <<hi, lo>> is hi * 2^16 + lo, 0 <= lo < 2^16.
WNorm(h, l) == <<h + (l \div B16), l % B16>>
W(n) == WNorm(0, n)
WMulS(w, b) == WNorm(w[1] * b, w[2] * b)
WSub(a, b) == WNorm(a[1] - b[1], a[2] - b[2])
WAdd(a, b) == WNorm(a[1] + b[1], a[2] + b[2])
WFits32(w) == -H15 <= w[1] /\ w[1] < H15
\* Conversion of a 64-bit value to int32_t: the low 32 bits, two's complement.
Narrow32(w) == (((w[1] + H15) % B16) - H15) * B16 + w[2]

\* a + b computed in int32_t leaves the range (signed overflow).
\* Fault variant of AddOverflows: the accumulators declared int16_t.
AddOverflows16(a, b) ==
  \/ b > 0 /\ a > (H15 - 1) - b
  \/ b < 0 /\ a < (-H15) - b

AddOverflows(a, b) ==
  \/ b > 0 /\ a > MaxInt32 - b
  \/ b < 0 /\ a < MinInt32 - b

Abs(n) == IF n < 0 THEN -n ELSE n
Sign(n) == IF n < 0 THEN -1 ELSE IF n > 0 THEN 1 ELSE 0

\* n / d rounded to the nearest integer, ties away from zero (d > 0).
RoundDiv(n, d) == Sign(n) * ((2 * Abs(n) + d) \div (2 * d))

RECURSIVE ISqrtBits(_, _, _)
ISqrtBits(n, r, b) ==
  IF b = 0 THEN r
  ELSE IF (r + b) <= n \div (r + b) THEN ISqrtBits(n, r + b, b \div 2)
  ELSE ISqrtBits(n, r, b \div 2)
\* floor(sqrt(n)), 0 <= n < 2^31
ISqrt(n) == ISqrtBits(n, 0, H15)
\* sqrt(n) rounded to the nearest integer
RoundSqrt(n) == LET r == ISqrt(n) IN IF n - r * r > r THEN r + 1 ELSE r

\* ------------------------------------------------------------------ float
FP == 2 ^ FracBits
DR == 2 ^ DExtraBits

Fin(v) == [k |-> "fin", v |-> v]
NaN == [k |-> "nan", v |-> 0]
Inf(s) == [k |-> "inf", v |-> s]
IsFin(a) == a.k = "fin"
FSign(a) == Sign(a.v)

\* double -> float conversion of a finite double given in double units.
ToFloat(d) == Fin(RoundDiv(d, DR))
\* float -> double conversion (exact).
ToDouble(f) == f.v * DR
\* int32_t -> float conversion.
IntToFloat(n) == Fin(n * FP)

FNeg(a) == IF a.k = "nan" THEN NaN ELSE [k |-> a.k, v |-> -a.v]

FAdd(a, b) ==
  IF a.k = "nan" \/ b.k = "nan" THEN NaN
  ELSE IF a.k = "inf" /\ b.k = "inf" THEN (IF a.v = b.v THEN a ELSE NaN)
  ELSE IF a.k = "inf" THEN a
  ELSE IF b.k = "inf" THEN b
  ELSE Fin(a.v + b.v)

FSub(a, b) == FAdd(a, FNeg(b))

\* XT_MUL_S
FMul(a, b) ==
  IF a.k = "nan" \/ b.k = "nan" THEN NaN
  ELSE IF a.k = "inf" \/ b.k = "inf"
    THEN (IF FSign(a) * FSign(b) = 0 THEN NaN ELSE Inf(FSign(a) * FSign(b)))
  ELSE Fin(RoundDiv(a.v * b.v, FP))

\* XT_DIV_S
FDiv(a, b) ==
  IF a.k = "nan" \/ b.k = "nan" THEN NaN
  ELSE IF a.k = "inf" THEN (IF b.k = "inf" THEN NaN
                            ELSE Inf(a.v * (IF b.v < 0 THEN -1 ELSE 1)))
  ELSE IF b.k = "inf" THEN Fin(0)
  ELSE IF b.v = 0 THEN (IF a.v = 0 THEN NaN ELSE Inf(Sign(a.v)))
  ELSE Fin(Sign(b.v) * RoundDiv(a.v * FP, Abs(b.v)))

\* XT_SQRT_S
FSqrt(a) ==
  IF a.k = "nan" THEN NaN
  ELSE IF a.k = "inf" THEN (IF a.v > 0 THEN a ELSE NaN)
  ELSE IF a.v < 0 THEN NaN
  ELSE Fin(RoundSqrt(a.v * FP))

\* XT_RECIP_S
FRecip(a) == FDiv(Fin(FP), a)

\* ------------------------------------------------------------ storage types
\* ET_FORALL_CADENCE_QUANTIZED_TYPES: (uint8_t, Byte), (int8_t, Char).
SupportedDTypes == {"Byte", "Char"}
DTypes == SupportedDTypes \cup {"Int", "Float"}
\* std::numeric_limits<T>::min() / max() of the storage type of a dtype tag.
MinCode(T) == IF T = "Byte" THEN 0 ELSE -128
MaxCode(T) == IF T = "Byte" THEN 255 ELSE 127

\* roundf of a finite float: nearest integer, ties away from zero.
Round(f) == RoundDiv(f.v, FP)
Saturate(T, n) ==
  IF n < MinCode(T) THEN MinCode(T) ELSE IF n > MaxCode(T) THEN MaxCode(T) ELSE n

\* kernels::quantize<T>: round(value * inv_scale) + zero_point, saturated.
quantize(T, value, inv_scale, zero_point) ==
  LET p == FMul(value, inv_scale) IN
  IF p.k = "inf" THEN (IF p.v > 0 THEN MaxCode(T) ELSE MinCode(T))
  ELSE Saturate(T, Round(p) + zero_point)
\* The conversion of a NaN to an integer code is undefined.
quantizeDefined(value, inv_scale) == FMul(value, inv_scale).k # "nan"

\* kernels::dequantize<T>: (code - zero_point) * scale.
dequantize(code, scale, zero_point) == FMul(IntToFloat(code - zero_point), scale)

\* ------------------------------------------------------------------ state
VARIABLES
  args,             \* the call: entry point, dtype tag, build, shape, scalars
  input,            \* input tensor buffer [len, fill, data]
  in0,              \* the input tensor buffer as it was when the call was made
  out,              \* output tensor buffer (unused when out aliases input)
  weight, bias,     \* float vectors
  in_scale_t,       \* Variant A: single-element float tensor
  in_zero_point_t,  \* Variant A: single-element int64 tensor
  pc,               \* "call", "run", "done", "aborted", "ub"
  ub,               \* which undefined behaviour was reached ("" for none)
  kern,             \* locals of quantized_layer_norm_per_tensor_ set on entry
  row,              \* per row i: loop position and locals of the loop body
  wcount,           \* number of stores to each element of the output buffer
  box, target,      \* extractValue<T>(number): the NSNumber and T
  xpc, xret         \* extractValue: "call", "returned", "aborted"; the result

callvars == <<args, in0, weight, bias, in_scale_t, in_zero_point_t>>
boxvars == <<box, target, xpc, xret>>
vars == <<args, input, in0, out, weight, bias, in_scale_t, in_zero_point_t,
          pc, ub, kern, row, wcount, box, target, xpc, xret>>

\* Element k (0-based) of a buffer: the explicit prefix, then the fill value.
Load(buf, k) == IF k < Len(buf.data) THEN buf.data[k + 1] ELSE buf.fill

\* The span [lo, hi] of the element indices a row has read or written so far.
NoSpan == [lo |-> -1, hi |-> -1]
Touch(span, k) ==
  IF span.lo = -1 THEN [lo |-> k, hi |-> k]
  ELSE [lo |-> IF k < span.lo THEN k ELSE span.lo,
        hi |-> IF k > span.hi THEN k ELSE span.hi]

NoKern ==
  [T |-> "Byte", input_scale |-> Fin(0), input_zero_point |-> 0,
   output_inv_scale |-> Fin(0), last_dim |-> 0, leading_dims |-> 0]
IdleRow ==
  [pc |-> "idle", j |-> 0, sum |-> 0, sq_sum |-> 0, mean |-> Fin(0),
   variance |-> Fin(0), inv_std |-> Fin(0), ovf |-> FALSE,
   rd |-> NoSpan, wr |-> NoSpan, ld |-> {}, st |-> {}]

\* ---------------------------------------------------------- entry points
\* ET_DCHECK_MSG(cond, ...): fatal in a debug build, compiled out under NDEBUG.
ET_DCHECK_MSG(cond, debug) == IF ~cond /\ debug THEN "aborted" ELSE "done"

\* Fault variant of ExtractScale: the scale tensor is ignored, 1.0 is used.
ExtractScaleIgnored(t) == Fin(FP)
\* in_scale.const_data_ptr<float>()[0]
ExtractScale(t) == t[1]
\* in_zero_point.const_data_ptr<int64_t>()[0]
ExtractZeroPoint(t) == t[1]

\* Lines 41-49: pointers, output_inv_scale, last_dim, leading_dims.
KernEnter(T, input_scale, input_zero_point) ==
  [T |-> T, input_scale |-> input_scale, input_zero_point |-> input_zero_point,
   output_inv_scale |-> FRecip(ToFloat(args.output_scale)),
   last_dim |-> args.last_dim, leading_dims |-> args.leading]

\* switch (dtype) { ET_FORALL_CADENCE_QUANTIZED_TYPES(...) default: ET_DCHECK_MSG }
Dispatch(input_scale, input_zero_point) ==
  IF args.dtype \in SupportedDTypes
  THEN /\ pc' = "run"
       /\ kern' = KernEnter(args.dtype, input_scale, input_zero_point)
  ELSE /\ pc' = ET_DCHECK_MSG(FALSE, args.debug)
       /\ UNCHANGED kern

\* Variant A: scale and zero-point are read from tensors.
quantized_layer_norm_out ==
  /\ pc = "call" /\ args.variant = "A"
  /\ Dispatch(ExtractScale(in_scale_t), ExtractZeroPoint(in_zero_point_t))
  /\ UNCHANGED <<callvars, input, out, ub, row, wcount, boxvars>>

\* Variant B: scale (double, narrowed to the float parameter) and zero-point
\* are literal scalars.
quantized_layer_norm_per_tensor_out ==
  /\ pc = "call" /\ args.variant = "B"
  /\ Dispatch(ToFloat(args.in_scale), args.in_zero_point)
  /\ UNCHANGED <<callvars, input, out, ub, row, wcount, boxvars>>

\* ------------------------------------------------------------- row body
\* Fault variant of RowPtr: the row stride is forgotten.
RowPtrNoStride(i, last_dim) == i
\* x = in_data + i * last_dim, y = out_data + i * last_dim
RowPtr(i, last_dim) == i * last_dim

Undefined(kind) ==
  /\ pc' = "ub" /\ ub' = kind
  /\ UNCHANGED <<input, out, wcount>>

\* int32_t sum = 0; int32_t sq_sum = last_dim * input_zero_point * input_zero_point;
InitSqSum(last_dim, zp) == WMulS(WMulS(W(last_dim), zp), zp)

\* Lines 53-61. ordered: the rows are taken in the order of the for loop.
RowBegin(i, ordered) ==
  /\ pc = "run" /\ row[i].pc = "idle"
  /\ ordered => (IF i = 0 THEN TRUE ELSE row[i - 1].pc = "done")
  /\ LET w == InitSqSum(kern.last_dim, kern.input_zero_point) IN
     row' = [row EXCEPT ![i] = [@ EXCEPT !.pc = "acc", !.j = 0, !.sum = 0,
                                         !.sq_sum = Narrow32(w),
                                         !.ovf = ~WFits32(w)]]
  /\ UNCHANGED <<callvars, input, out, pc, ub, kern, wcount, boxvars>>

\* val * val, the addend of sq_sum += val * val
ValSq(val) == val * val

\* Lines 63-67: one iteration of the accumulation loop.
AccStep(i) ==
  /\ pc = "run" /\ row[i].pc = "acc" /\ row[i].j < kern.last_dim
  /\ LET r == row[i]
         k == RowPtr(i, kern.last_dim) + r.j
         val == Load(input, k)
     IN IF AddOverflows(r.sum, val) \/ AddOverflows(r.sq_sum, ValSq(val))
        THEN /\ Undefined("signed overflow")
             /\ row' = [row EXCEPT ![i].ovf = TRUE, ![i].rd = Touch(@, k)]
        ELSE /\ row' = [row EXCEPT ![i] = [@ EXCEPT !.sum = r.sum + val,
                                  !.sq_sum = r.sq_sum + ValSq(val),
                                  !.j = r.j + 1, !.rd = Touch(r.rd, k)]]
             /\ UNCHANGED <<input, out, pc, ub, wcount>>
  /\ UNCHANGED <<callvars, kern, boxvars>>

\* Fault variant of CompensatedSqSum: the factor 2 of the cross term is lost.
CompensatedSqSumNoFactor(sq_sum, sum, zp) == WSub(W(sq_sum), WMulS(W(sum), zp))
\* Fault variant of CompensatedSum: the compensation of sum is skipped.
CompensatedSumSkipped(sum, last_dim, zp) == W(sum)
\* sq_sum -= (2 * sum * input_zero_point), evaluated in int64_t.
CompensatedSqSum(sq_sum, sum, zp) == WSub(W(sq_sum), WMulS(W(2 * sum), zp))
\* sum -= (last_dim * input_zero_point), evaluated in 64 bits.
CompensatedSum(sum, last_dim, zp) == WSub(W(sum), WMulS(W(last_dim), zp))

\* Lines 68-69: the two zero-point compensation statements.
Compensate(i) ==
  /\ pc = "run" /\ row[i].pc = "acc" /\ row[i].j = kern.last_dim
  /\ LET r == row[i]
         sq == CompensatedSqSum(r.sq_sum, r.sum, kern.input_zero_point)
         sm == CompensatedSum(r.sum, kern.last_dim, kern.input_zero_point)
     IN IF AddOverflows(r.sum, r.sum)
        THEN /\ Undefined("signed overflow")
             /\ row' = [row EXCEPT ![i].ovf = TRUE]
        ELSE /\ row' = [row EXCEPT ![i] = [@ EXCEPT !.pc = "stats",
                          !.sq_sum = Narrow32(sq), !.sum = Narrow32(sm),
                          !.ovf = r.ovf \/ ~WFits32(sq) \/ ~WFits32(sm)]]
             /\ UNCHANGED <<input, out, pc, ub, wcount>>
  /\ UNCHANGED <<callvars, kern, boxvars>>

\* float mean = XT_DIV_S(XT_MUL_S(input_scale, sum), last_dim)
Mean(input_scale, sum, last_dim) ==
  FDiv(FMul(input_scale, IntToFloat(sum)), IntToFloat(last_dim))
\* float variance = XT_DIV_S(XT_MUL_S(sq_sum, input_scale^2), last_dim) - mean^2
Variance(input_scale, sq_sum, last_dim, mean) ==
  FSub(FDiv(FMul(IntToFloat(sq_sum), FMul(input_scale, input_scale)),
            IntToFloat(last_dim)),
       FMul(mean, mean))
\* float inv_std = XT_RECIP_S(XT_SQRT_S(XT_ADD_S(variance, (float)eps)))
InvStd(variance, eps) == FRecip(FSqrt(FAdd(variance, ToFloat(eps))))

\* Lines 71-76.
Stats(i) ==
  /\ pc = "run" /\ row[i].pc = "stats"
  /\ LET r == row[i]
         mean == Mean(kern.input_scale, r.sum, kern.last_dim)
         variance == Variance(kern.input_scale, r.sq_sum, kern.last_dim, mean)
     IN row' = [row EXCEPT ![i] = [@ EXCEPT !.pc = "norm", !.j = 0,
                  !.mean = mean, !.variance = variance,
                  !.inv_std = InvStd(variance, args.eps)]]
  /\ UNCHANGED <<callvars, input, out, pc, ub, kern, wcount, boxvars>>

\* Fault variant of OutIsInput: the stores always go to the input buffer.
OutIsInputAlways == TRUE
\* out.mutable_data_ptr<T>() is the buffer of input.const_data_ptr<T>().
OutIsInput == args.alias
\* Number of elements of the buffer the out tensor points to.
OutLen == IF OutIsInput THEN Len(input.data) ELSE Len(out)

\* val = (val - mean) * inv_std * weight_data[j] + bias_data[j]
NormValue(x, r, j) ==
  FAdd(FMul(FMul(FSub(dequantize(x, kern.input_scale, kern.input_zero_point),
                      r.mean),
                 r.inv_std),
            weight[j + 1]),
       bias[j + 1])

\* Lines 83-87 for element j of row i, x being the code loaded from index k.
StoreElem(i, j, k, x) ==
  LET r == row[i]
      o == RowPtr(i, kern.last_dim) + j
  IN IF j >= Len(weight) \/ j >= Len(bias)
     THEN Undefined("read past the end of weight or bias") /\ UNCHANGED row
     ELSE IF ~quantizeDefined(NormValue(x, r, j), kern.output_inv_scale)
     THEN Undefined("NaN converted to an integer code") /\ UNCHANGED row
     ELSE IF o >= OutLen
     THEN Undefined("write past the end of out") /\ UNCHANGED row
     ELSE LET code == quantize(kern.T, NormValue(x, r, j),
                               kern.output_inv_scale, args.output_zero_point)
          IN /\ IF OutIsInput
                THEN input' = [input EXCEPT !.data[o + 1] = code] /\ UNCHANGED out
                ELSE out' = [out EXCEPT ![o + 1] = code] /\ UNCHANGED input
             /\ wcount' = [wcount EXCEPT ![o + 1] = @ + 1]
             /\ row' = [row EXCEPT ![i] = [@ EXCEPT
                          !.j = r.j + 1, !.wr = Touch(r.wr, o),
                          !.rd = Touch(r.rd, k),
                          !.st = r.st \cup {j},
                          !.ld = {p \in r.ld : p[1] # j},
                          !.pc = IF r.j + 1 = kern.last_dim THEN "done" ELSE "norm"]]
             /\ UNCHANGED <<pc, ub>>

\* Lines 80-88: one iteration of the normalization loop, in loop order.
NormStep(i) ==
  /\ pc = "run" /\ row[i].pc = "norm"
  /\ LET j == row[i].j
         k == RowPtr(i, kern.last_dim) + j
     IN StoreElem(i, j, k, Load(input, k))
  /\ UNCHANGED <<callvars, kern, boxvars>>

\* The for loop over the rows has finished: the kernel returns.
Return ==
  /\ pc = "run" /\ \A i \in DOMAIN row : row[i].pc = "done"
  /\ pc' = "done"
  /\ UNCHANGED <<callvars, input, out, ub, kern, row, wcount, boxvars>>

\* Fault variant of NormLoad: x lags y by one element, so the load of x[j]
\* reads the slot of y[j - 1].
NormLoadLagging(i, j) ==
  /\ pc = "run" /\ row[i].pc = "norm"
  /\ j \notin row[i].st /\ \A p \in row[i].ld : p[1] # j
  /\ LET k == i * kern.last_dim + (IF j > 0 THEN j - 1 ELSE j) IN
     row' = [row EXCEPT ![i].ld = @ \cup {<<j, Load(input, k)>>},
                        ![i].rd = Touch(@, k)]
  /\ UNCHANGED <<callvars, input, out, pc, ub, kern, wcount, boxvars>>

\* Lines 80-88 as a build may schedule them under #pragma simd and the
\* __restrict__ qualifiers: the load of x[j] is issued for any element not yet
\* loaded, ahead of the stores of other elements ...
NormLoad(i, j) ==
  /\ pc = "run" /\ row[i].pc = "norm"
  /\ j \notin row[i].st /\ \A p \in row[i].ld : p[1] # j
  /\ LET k == RowPtr(i, kern.last_dim) + j IN
     row' = [row EXCEPT ![i].ld = @ \cup {<<j, Load(input, k)>>},
                        ![i].rd = Touch(@, k)]
  /\ UNCHANGED <<callvars, input, out, pc, ub, kern, wcount, boxvars>>

\* ... and the store of y[j] follows the load of x[j] it depends on.
NormStore(i, j) ==
  /\ pc = "run" /\ row[i].pc = "norm"
  /\ \E p \in row[i].ld :
       p[1] = j /\ StoreElem(i, j, RowPtr(i, kern.last_dim) + j, p[2])
  /\ UNCHANGED <<callvars, kern, boxvars>>

\* ------------------------------------------------- NSNumber conversion
\* Values are held doubled (v2 = 2 * value) so that halves are representable.
\* [number objCType][0] and the range of the type it encodes.
ObjCTypes == {"c", "C", "s", "S", "i", "I", "q", "Q", "l", "L", "f", "d", "B"}
Lower(t) ==
  CASE t = "C" -> "c" [] t = "S" -> "s" [] t = "I" -> "i" [] t = "Q" -> "q"
    [] t = "L" -> "l" [] t = "B" -> "b" [] OTHER -> t

\* deduceScalarType; "abort" is the ET_CHECK_MSG(false, "Unsupported type").
deduceScalarType(number) ==
  LET type == Lower(number.tag) IN
  IF type = "c" THEN "Byte"
  ELSE IF type = "s" THEN "Short"
  ELSE IF type = "i" THEN "Int"
  ELSE IF type = "q" \/ type = "l" THEN "Long"
  ELSE IF type = "f" THEN "Float"
  ELSE IF type = "d" THEN "Double"
  ELSE "abort"

isFloatingType(st) == st \in {"Float", "Double"}
TargetTypes == {"uint8_t", "int8_t", "int16_t", "int32_t", "float", "double"}
\* isIntegralType(CppTypeToScalarType<T>::value, true)
isIntegralTarget(T) == T \in {"uint8_t", "int8_t", "int16_t", "int32_t"}
TargetBits(T) ==
  CASE T = "uint8_t" -> 8 [] T = "int8_t" -> 8 [] T = "int16_t" -> 16 [] OTHER -> 32
TargetSigned(T) == T # "uint8_t"
\* std::numeric_limits<T>::lowest() and max() of an integral T
Lowest(T) ==
  IF T = "int32_t" THEN MinInt32
  ELSE IF TargetSigned(T) THEN -(2 ^ (TargetBits(T) - 1)) ELSE 0
Highest(T) ==
  IF T = "int32_t" THEN MaxInt32
  ELSE IF TargetSigned(T) THEN 2 ^ (TargetBits(T) - 1) - 1 ELSE 2 ^ TargetBits(T) - 1

\* The integer n (an int32 value) converted to integral T: the low bits.
WrapTo(T, n) ==
  IF T = "int32_t" THEN n
  ELSE LET m == 2 ^ TargetBits(T)
           u == n % m
       IN IF TargetSigned(T) /\ u >= m \div 2 THEN u - m ELSE u

RECURSIVE UlpOf(_, _)
UlpOf(m, u) == IF m \div u < 2 ^ 24 THEN u ELSE UlpOf(m, 2 * u)
\* n rounded to a multiple of u, ties to even (n >= 0).
RoundEven(n, u) ==
  LET q == n \div u
      r == n % u
  IN IF 2 * r < u \/ (2 * r = u /\ q % 2 = 0) THEN q * u ELSE (q + 1) * u
\* Nearest value with a 24-bit significand (binary32), in doubled units.
F32Round(v2) == Sign(v2) * RoundEven(Abs(v2), UlpOf(Abs(v2), 1))

\* Truncation toward zero of a doubled value.
Trunc(v2) == Sign(v2) * (Abs(v2) \div 2)

\* number.unsignedCharValue, charValue, shortValue, intValue, floatValue,
\* doubleValue: the value NSNumber hands back for the accessor of T (doubled).
Accessor(T, number) ==
  IF T = "double" THEN number.v2
  ELSE IF T = "float" THEN F32Round(number.v2)
  ELSE 2 * WrapTo(T, Trunc(number.v2))

\* lowest() <= value && value <= max(), on the value already converted to T.
InRangeOfT(T, value2) ==
  isIntegralTarget(T) =>
    (Lowest(T) <= value2 \div 2 /\ value2 \div 2 <= Highest(T))

\* extractValue<T>(number)
extractValue ==
  /\ xpc = "call"
  /\ IF deduceScalarType(box) = "abort"
     THEN xpc' = "aborted" /\ UNCHANGED xret
     ELSE IF isFloatingType(deduceScalarType(box)) /\ isIntegralTarget(target)
     THEN xpc' = "aborted" /\ UNCHANGED xret
     ELSE LET value == Accessor(target, box) IN
          IF ET_DCHECK_MSG(InRangeOfT(target, value), args.debug) = "aborted"
          THEN xpc' = "aborted" /\ UNCHANGED xret
          ELSE xpc' = "returned" /\ xret' = value
  /\ UNCHANGED <<callvars, input, out, pc, ub, kern, row, wcount, box, target>>

\* ------------------------------------------------------------ calls
\* Scalar parameter sets of a call: the float held by the scale tensor of
\* Variant A, the double passed to Variant B (the second is not a float: it
\* rounds to the float beside it), eps, and the output parameters (doubles).
ParamSets ==
  { [in_scale_f |-> Fin(FP), in_scale_d |-> FP * DR, eps |-> DR,
     output_scale |-> FP * DR, output_zero_point |-> 0],
    [in_scale_f |-> Fin(FP \div 2), in_scale_d |-> (FP \div 2) * DR + 1,
     eps |-> FP * DR, output_scale |-> (FP \div 2) * DR, output_zero_point |-> 3],
    [in_scale_f |-> Fin(2 * FP), in_scale_d |-> 2 * FP * DR, eps |-> 4 * DR,
     output_scale |-> 2 * FP * DR - 1, output_zero_point |-> 100] }

ZeroPoints(T) == IF T = "Byte" THEN {0, 10} ELSE {-128, 5}

\* Row patterns: element j of a row under pattern p.
RowPatterns == {"zp", "alt", "ramp"}
PatCode(p, j, T, z) ==
  CASE p = "zp" -> z
    [] p = "alt" -> IF j % 2 = 0 THEN MaxCode(T) ELSE z
    [] OTHER -> Saturate(T, z + j + 1)
\* The row-major data of a tensor of L rows of N elements, row i following pat[i].
TensorOf(pat, L, N, T, z) ==
  [k \in 1..(L * N) |-> PatCode(pat[(k - 1) \div N], (k - 1) % N, T, z)]

\* weight and bias vectors of length n.
WeightOf(wb, n) ==
  [j \in 1..n |-> IF wb = 1 THEN Fin(FP)
                  ELSE IF j % 2 = 1 THEN Fin(-(FP \div 2)) ELSE Fin(2 * FP)]
BiasOf(wb, n) ==
  [j \in 1..n |-> IF wb = 1 THEN Fin(0) ELSE Fin((3 * FP) \div 2 - (j - 1) * 2 * FP)]

NoBox == [tag |-> "i", v2 |-> 0]

\* A call about to be made: the arguments, the buffers, nothing executed yet.
Setup(variant, T, debug, L, N, alias, P, z, buf, w, b, outLen) ==
  /\ args = [variant |-> variant, dtype |-> T, debug |-> debug,
             leading |-> L, last_dim |-> N, alias |-> alias,
             in_scale |-> P.in_scale_d, in_zero_point |-> z, eps |-> P.eps,
             output_scale |-> P.output_scale,
             output_zero_point |-> P.output_zero_point]
  /\ input = buf /\ in0 = buf
  /\ out = IF alias THEN <<>> ELSE [k \in 1..outLen |-> MinCode(T)]
  /\ weight = w /\ bias = b
  /\ in_scale_t = <<P.in_scale_f>> /\ in_zero_point_t = <<z>>
  /\ pc = "call" /\ ub = "" /\ kern = NoKern
  /\ row = [i \in 0..(L - 1) |-> IdleRow]
  /\ wcount = [k \in 1..(IF alias THEN Len(buf.data) ELSE outLen) |-> 0]
  /\ box = NoBox /\ target = "double" /\ xpc = "idle" /\ xret = 0

Explicit(d) == [len |-> Len(d), fill |-> 0, data |-> d]
Variants == {"A", "B"}

\* Well-formed calls on supported types.
InitNumeric ==
  \E variant \in Variants, T \in SupportedDTypes, L \in 1..MaxLeading,
     N \in 1..MaxRowLen, P \in ParamSets, wb \in 1..2 :
    \E z \in ZeroPoints(T), pat \in [0..(L - 1) -> RowPatterns] :
      Setup(variant, T, FALSE, L, N, FALSE, P, z,
            Explicit(TensorOf(pat, L, N, T, z)),
            WeightOf(wb, N), BiasOf(wb, N), L * N)

P1 == CHOOSE P \in ParamSets : P.output_zero_point = 0

\* Every dtype tag, in both builds.
InitDispatch ==
  \E variant \in Variants, T \in DTypes, debug \in BOOLEAN, N \in 1..MaxRowLen :
    Setup(variant, T, debug, 1, N, FALSE, P1, 0,
          Explicit([k \in 1..N |-> k]), WeightOf(1, N), BiasOf(1, N), N)

\* weight, bias or out not of the input's shape.
InitShape ==
  \E variant \in Variants, L \in 1..MaxLeading, N \in 1..MaxRowLen :
    \E wl \in (N - 1)..(N + 1), bl \in (N - 1)..(N + 1),
       ol \in {L * N - 1, L * N, L * N + 1} :
      /\ wl # N \/ bl # N \/ ol # L * N
      /\ Setup(variant, "Byte", FALSE, L, N, FALSE, P1, 10,
               Explicit([k \in 1..(L * N) |-> 10 + k]),
               WeightOf(2, wl), BiasOf(2, bl), ol)

Init == InitNumeric \/ InitDispatch \/ InitShape

Next ==
  \/ quantized_layer_norm_out
  \/ quantized_layer_norm_per_tensor_out
  \/ \E i \in DOMAIN row : RowBegin(i, TRUE)
  \/ \E i \in DOMAIN row : AccStep(i)
  \/ \E i \in DOMAIN row : Compensate(i)
  \/ \E i \in DOMAIN row : Stats(i)
  \/ \E i \in DOMAIN row : NormStep(i)
  \/ Return

\* The program: one call of either entry point, rows in loop order.
Spec == Init /\ [][Next]_vars

\* -------------------------------------------- rows and elements in any order
P2 == CHOOSE P \in ParamSets : P.output_zero_point = 3
ParZeroPoint(T) == IF T = "Byte" THEN 10 ELSE -128
\* The calls whose rows are run as independent workers.
ParCalls ==
  { c \in [T : SupportedDTypes, L : 1..MaxLeading, N : 1..MaxRowLen,
           p0 : {"alt", "ramp"}, p1 : {"zp", "ramp"}] : c.L * c.N <= MaxParCells }
ParData(c) ==
  TensorOf([i \in 0..(c.L - 1) |-> IF i % 2 = 0 THEN c.p0 ELSE c.p1],
           c.L, c.N, c.T, ParZeroPoint(c.T))

InitPar ==
  \E variant \in Variants, alias \in BOOLEAN, c \in ParCalls :
    Setup(variant, c.T, FALSE, c.L, c.N, alias, P2, ParZeroPoint(c.T),
          Explicit(ParData(c)), WeightOf(2, c.N), BiasOf(2, c.N), c.L * c.N)

NextPar ==
  \/ quantized_layer_norm_out
  \/ quantized_layer_norm_per_tensor_out
  \/ \E i \in DOMAIN row : RowBegin(i, FALSE)
  \/ \E i \in DOMAIN row : AccStep(i)
  \/ \E i \in DOMAIN row : Compensate(i)
  \/ \E i \in DOMAIN row : Stats(i)
  \/ \E i \in DOMAIN row : \E j \in 0..(args.last_dim - 1) : NormLoad(i, j)
  \/ \E i \in DOMAIN row : \E j \in 0..(args.last_dim - 1) : NormStore(i, j)
  \/ Return

\* The per-row bodies as concurrent workers, one per row, in any interleaving;
\* within a row the loads and stores of the normalization loop in any order
\* that respects the dependence of y[j] on x[j]. out may be the input buffer.
SpecPar == InitPar /\ [][NextPar]_vars

\* --------------------------------------------------------- accumulators
MaxAbsCode(T) == IF -MinCode(T) > MaxCode(T) THEN -MinCode(T) ELSE MaxCode(T)
\* Largest row length with row_length * max_code^2 <= 2^31 - 1.
PlainLimit(T) == MaxInt32 \div (MaxCode(T) * MaxCode(T))
\* Largest row length with row_length * (max_abs_code + |z|)^2 <= 2^31 - 1.
WideLimit(T, z) ==
  MaxInt32 \div ((MaxAbsCode(T) + Abs(z)) * (MaxAbsCode(T) + Abs(z)))

AccZeroPoints(T) == {MinCode(T), ParZeroPoint(T), MaxCode(T)}
AccCodes(T) == {MinCode(T), MaxCode(T), MaxCode(T) - 1}

\* Short rows: every row over AccCodes.
InitAccShort ==
  \E variant \in Variants, T \in SupportedDTypes, N \in 1..MaxRowLen :
    \E z \in AccZeroPoints(T), d \in [1..N -> AccCodes(T)] :
      Setup(variant, T, FALSE, 1, N, FALSE, P1, z, Explicit(d),
            WeightOf(1, N), BiasOf(1, N), N)

\* Long rows at the two length limits, every element holding the same code.
InitAccLong ==
  \E T \in SupportedDTypes :
    \E z \in {MinCode(T), MaxCode(T)}, fill \in {MinCode(T), MaxCode(T)} :
      \E N \in {PlainLimit(T), WideLimit(T, z)} :
        Setup("B", T, FALSE, 1, N, FALSE, P1, z,
              [len |-> N, fill |-> fill, data |-> <<>>], <<>>, <<>>, 0)

InitAcc == InitAccShort \/ InitAccLong

NextAcc ==
  \/ quantized_layer_norm_out
  \/ quantized_layer_norm_per_tensor_out
  \/ \E i \in DOMAIN row : RowBegin(i, TRUE)
  \/ \E i \in DOMAIN row : AccStep(i)
  \/ \E i \in DOMAIN row : Compensate(i)

\* The integer part of the row body (lines 60-69), on short and on long rows.
SpecAcc == InitAcc /\ [][NextAcc]_vars

\* ------------------------------------------------------ extractValue calls
BoxValues == {0, 1, -1, 127, 128, 255, 256, 300, -129, 32767, 32768, -32769,
              70000, 16777216, 16777217, 536870913}
TagRange(t) ==
  CASE t = "c" -> (-128)..127 [] t = "C" -> 0..255
    [] t = "s" -> (-32768)..32767 [] t = "S" -> 0..65535
    [] t = "B" -> 0..1
    [] t \in {"I", "Q", "L"} -> 0..MaxInt32
    [] OTHER -> MinInt32..MaxInt32

\* An NSNumber holds a value of the type its objCType names; a floating one
\* may hold a half.
InitBox ==
  /\ \E t \in ObjCTypes, v \in BoxValues, h \in {0, 1} :
       /\ v \in TagRange(t)
       /\ h = 1 => t \in {"f", "d"}
       /\ box = [tag |-> t, v2 |-> IF t = "f" THEN F32Round(2 * v + h) ELSE 2 * v + h]
  /\ target \in TargetTypes
  /\ xpc = "call" /\ xret = 0
  /\ \E debug \in BOOLEAN :
       args = [variant |-> "B", dtype |-> "Byte", debug |-> debug,
               leading |-> 0, last_dim |-> 0, alias |-> FALSE,
               in_scale |-> 0, in_zero_point |-> 0, eps |-> 0,
               output_scale |-> 0, output_zero_point |-> 0]
  /\ input = Explicit(<<>>) /\ in0 = Explicit(<<>>) /\ out = <<>>
  /\ weight = <<>> /\ bias = <<>>
  /\ in_scale_t = <<>> /\ in_zero_point_t = <<>>
  /\ pc = "idle" /\ ub = "" /\ kern = NoKern
  /\ row = <<>> /\ wcount = <<>>

NextBox == extractValue

\* One call of extractValue<T> on a boxed number.
SpecBox == InitBox /\ [][NextBox]_vars

\* ------------------------------------------------- the kernel as a function
\* The row loop of quantized_layer_norm_per_tensor_ evaluated in one piece:
\* what the sequential loop writes when nothing undefined happens. c holds
\* the call: [T, L, N, s, z, eps, output_scale, output_zero_point, weight, bias].
RECURSIVE RefSum(_, _, _)
RefSum(buf, base, n) ==
  IF n = 0 THEN 0 ELSE RefSum(buf, base, n - 1) + Load(buf, base + n - 1)
RECURSIVE RefSqSum(_, _, _)
RefSqSum(buf, base, n) ==
  IF n = 0 THEN 0
  ELSE RefSqSum(buf, base, n - 1) + Load(buf, base + n - 1) * Load(buf, base + n - 1)

\* mean and inv_std of the row starting at base (lines 60-76).
RefStats(buf, base, c) ==
  LET S == RefSum(buf, base, c.N)
      SQ == Narrow32(InitSqSum(c.N, c.z)) + RefSqSum(buf, base, c.N)
      sq == Narrow32(CompensatedSqSum(SQ, S, c.z))
      sm == Narrow32(CompensatedSum(S, c.N, c.z))
      mean == Mean(c.s, sm, c.N)
  IN [mean |-> mean, inv_std |-> InvStd(Variance(c.s, sq, c.N, mean), c.eps)]

\* The code written at y[j], the row statistics being st (lines 83-87).
RefCode(x, st, j, c) ==
  quantize(c.T,
           FAdd(FMul(FMul(FSub(dequantize(x, c.s, c.z), st.mean), st.inv_std),
                     c.weight[j + 1]),
                c.bias[j + 1]),
           FRecip(ToFloat(c.output_scale)), c.output_zero_point)

\* The output tensor written to a buffer separate from the input buffer buf.
RefOut(buf, c) ==
  [k \in 1..(c.L * c.N) |->
     LET j == (k - 1) % c.N
         base == (k - 1) - j
     IN RefCode(Load(buf, base + j), RefStats(buf, base, c), j, c)]

\* The sequential loop running in place: y[j] is stored into the buffer the
\* row was read from, element after element, row after row.
RECURSIVE RefInPlaceFrom(_, _, _, _)
RefInPlaceFrom(buf, k, st, c) ==
  IF k = c.L * c.N THEN buf.data
  ELSE LET j == k % c.N
           st2 == IF j = 0 THEN RefStats(buf, k, c) ELSE st
           code == RefCode(Load(buf, k), st2, j, c)
       IN RefInPlaceFrom([buf EXCEPT !.data[k + 1] = code], k + 1, st2, c)
RefInPlace(buf, c) == RefInPlaceFrom(buf, 0, [mean |-> Fin(0), inv_std |-> Fin(0)], c)

\* The call in progress, with input scale s and zero-point z.
CallWith(s, z) ==
  [T |-> args.dtype, L |-> args.leading, N |-> args.last_dim, s |-> s, z |-> z,
   eps |-> args.eps, output_scale |-> args.output_scale,
   output_zero_point |-> args.output_zero_point, weight |-> weight, bias |-> bias]

\* The buffer the out tensor points to, as it is now.
OutNow == IF args.alias THEN input.data ELSE out
\* The kernel proper was entered (the dtype was dispatched).
Entered == kern # NoKern
ShapeOK ==
  /\ Len(weight) = args.last_dim /\ Len(bias) = args.last_dim
  /\ (~args.alias => Len(out) = args.leading * args.last_dim)
\* Row i of the input holds the input zero-point at every position.
ConstantRow(i) ==
  \A j \in 0..(args.last_dim - 1) :
    Load(input, i * args.last_dim + j) = kern.input_zero_point

C2_UnsupportedDTypeFatal ==
  args.dtype \notin SupportedDTypes =>
    /\ pc # "done"
    /\ \A k \in DOMAIN wcount : wcount[k] = 0

\* C3: a call whose weight, bias or out does not have the input's shape is
\* rejected before any row is processed: nothing is written, nothing is
\* accessed out of bounds, and the call does not return normally.
C3_ShapeViolationFailsFast ==
  ~ShapeOK =>
    /\ \A i \in DOMAIN row : row[i].pc = "idle"
    /\ \A k \in DOMAIN wcount : wcount[k] = 0
    /\ pc \notin {"ub", "done", "run"}

\* C5: with non-aliasing buffers no step changes the input tensor, weight,
\* bias, the scale and zero-point tensors or the scalar arguments; no element
\* of out is ever stored to twice; and when the kernel returns, each of the
\* leading * last_dim elements of out has been stored to exactly once and no
\* other element has.
C5_Frame ==
  ~args.alias =>
    /\ \A k \in DOMAIN wcount : wcount[k] <= 1
    /\ (pc = "done" /\ Entered) =>
         \A k \in DOMAIN wcount :
           wcount[k] = IF k <= args.leading * args.last_dim THEN 1 ELSE 0
C5_OnlyOutputWritten ==
  /\ []C5_Frame
  /\ [][~args.alias =>
          /\ input' = input /\ weight' = weight /\ bias' = bias
          /\ in_scale_t' = in_scale_t /\ in_zero_point_t' = in_zero_point_t
          /\ args' = args]_vars

\* C5 witness: a returned call that processed the largest tensor.
C5_Witness ==
  /\ pc = "done" /\ Entered /\ ~args.alias
  /\ args.leading = MaxLeading /\ args.last_dim = MaxRowLen
  /\ \A k \in DOMAIN wcount : wcount[k] = 1

\* C6: the two entry points differ only in where the input scale and
\* zero-point come from. A returned Variant A call has written what the
\* kernel writes for the literal scalars (s, z) held by its tensors; a returned
\* Variant B call has written what the kernel writes for tensors holding its
\* scalars (the scale as the float parameter receives it); and either entry
\* point enters the kernel exactly for the supported dtypes.
C6_VariantsAgree ==
  /\ (pc # "call") => (Entered <=> args.dtype \in SupportedDTypes)
  /\ (pc = "done" /\ Entered /\ ~args.alias /\ ShapeOK) =>
       IF args.variant = "A"
       THEN out = RefOut(in0, CallWith(ToFloat(ToDouble(in_scale_t[1])),
                                       in_zero_point_t[1]))
       ELSE out = RefOut(in0, CallWith(ExtractScale(<<ToFloat(args.in_scale)>>),
                                       ExtractZeroPoint(<<args.in_zero_point>>)))

\* C6 witness: a returned Variant A call with a non-zero zero-point and a scale
\* other than 1 on a row that is not constant.
C6_Witness ==
  /\ pc = "done" /\ Entered /\ args.variant = "A"
  /\ in_zero_point_t[1] # 0 /\ in_scale_t[1] # Fin(FP)
  /\ \E k \in DOMAIN out : out[k] # out[1]

\* C4: rows are mutually independent. Run as concurrent workers in any
\* interleaving, row i reads only input elements [i*N, (i+1)*N) and writes
\* only output elements [i*N, (i+1)*N); and when input and output do not
\* alias, the output tensor of a returned call is the one the sequential row
\* loop writes.
InRow(span, i) ==
  span # NoSpan =>
    (i * args.last_dim <= span.lo /\ span.hi < (i + 1) * args.last_dim)
C4_RowsIndependent ==
  /\ \A i \in DOMAIN row : InRow(row[i].rd, i) /\ InRow(row[i].wr, i)
  /\ (pc = "done" /\ Entered /\ ~args.alias) =>
       out = RefOut(in0, CallWith(kern.input_scale, kern.input_zero_point))

\* C4 witness: a returned call, without aliasing, in which a later row started
\* storing its output before an earlier row had been begun.
C4_Witness ==
  /\ pc = "run" /\ ~args.alias /\ args.leading >= 2
  /\ row[0].pc = "idle" /\ row[1].pc = "norm" /\ row[1].st # {}
  /\ \E k \in DOMAIN out : wcount[k] = 1 /\ out[k] # MinCode(args.dtype)

ParCallRecord(variant, c) ==
  [T |-> c.T, L |-> c.L, N |-> c.N,
   s |-> IF variant = "A" THEN P2.in_scale_f ELSE ToFloat(P2.in_scale_d),
   z |-> ParZeroPoint(c.T), eps |-> P2.eps, output_scale |-> P2.output_scale,
   output_zero_point |-> P2.output_zero_point,
   weight |-> WeightOf(2, c.N), bias |-> BiasOf(2, c.N)]
ZeroPointInRange ==
  MinCode(args.dtype) <= kern.input_zero_point
    /\ kern.input_zero_point <= MaxCode(args.dtype)
C7_NoOverflowPlainLimit ==
  (Entered /\ ZeroPointInRange /\ args.last_dim <= PlainLimit(args.dtype)) =>
    \A i \in DOMAIN row : ~row[i].ovf

\* C7 as amended: the same under the precondition
\* row_length * (max_abs_code + |zero_point|)^2 <= 2^31 - 1.
C7_NoOverflowWideLimit ==
  (Entered /\ ZeroPointInRange
     /\ args.last_dim <= WideLimit(args.dtype, kern.input_zero_point)) =>
    /\ pc # "ub"
    /\ \A i \in DOMAIN row : ~row[i].ovf

\* C7 witness: an int8 row at the amended length limit, compensated, whose
\* sq_sum ends within 2^16 of INT32_MAX.
C7_Witness ==
  /\ args.dtype = "Char" /\ Entered
  /\ args.last_dim = WideLimit("Char", kern.input_zero_point)
  /\ row[0].pc = "stats" /\ ~row[0].ovf
  /\ row[0].sq_sum > MaxInt32 - B16

\* The exact sums of (x_j - z) and (x_j - z)^2 over the row of the input.
RECURSIVE ExactSums(_, _, _)
ExactSums(d, z, n) ==
  IF n = 0 THEN [s |-> W(0), q |-> W(0)]
  ELSE LET e == ExactSums(d, z, n - 1)
           v == d[n] - z
       IN [s |-> WAdd(e.s, W(v)), q |-> WAdd(e.q, W(v * v))]
ExactRow ==
  LET z == kern.input_zero_point
      e == ExactSums(in0.data, z, Len(in0.data))
      rest == W(in0.len - Len(in0.data))
      v == in0.fill - z
  IN [s |-> WAdd(e.s, WMulS(rest, v)), q |-> WAdd(e.q, WMulS(WMulS(rest, v), v))]

\* C9: zero-point compensation identity. After the accumulation loop and the
\* two compensation statements of a row in which no 32-bit overflow occurred,
\* sum is exactly the sum of (x_j - z) and sq_sum exactly the sum of
\* (x_j - z)^2.
C9_CompensationIdentity ==
  (Entered /\ args.leading = 1 /\ row[0].pc = "stats" /\ ~row[0].ovf) =>
    /\ W(row[0].sum) = ExactRow.s
    /\ W(row[0].sq_sum) = ExactRow.q

\* C9 witness: a compensated row of the largest enumerated length with a
\* non-zero zero-point, distinct codes and non-zero sums.
C9_Witness ==
  /\ Entered /\ row[0].pc = "stats" /\ ~row[0].ovf
  /\ Len(in0.data) = MaxRowLen /\ in0.data[1] # in0.data[MaxRowLen]
  /\ kern.input_zero_point > 0 /\ row[0].sum < 0 /\ row[0].sq_sum > 0

\* C10: extractValue<T> returns a value numerically equal to the boxed value
\* or rejects the conversion: a boxed value outside the range of T, and a
\* floating boxed value when T is integral, are never returned.
C10_ExtractValueRangeChecked ==
  xpc = "returned" =>
    /\ xret = box.v2
    /\ ~(isFloatingType(deduceScalarType(box)) /\ isIntegralTarget(target))

====
